---- MODULE Spec2Model ----
(***************************************************************************)
(* Model of game/scripts/generateRealisticSprites.mjs: the seeded 3D      *)
(* gradient noise (Noise3D), its fractal combinators, the planet surface   *)
(* classifier, the per-body pixel loops and the command-line driver.       *)
(*                                                                         *)
(* Numbers.  JavaScript numbers are binary doubles.  The model computes    *)
(* with exact rationals <<n, d>> (d > 0, lowest terms); d = 0 encodes the  *)
(* non-finite results of a division by zero: <<0,0>> is NaN, <<1,0>> is    *)
(* +Infinity and <<-1,0>> is -Infinity.  The 32-bit state of the linear    *)
(* congruential generator is kept as two 16-bit limbs <<hi, lo>>.          *)
(***************************************************************************)
EXTENDS Integers, Sequences, FiniteSets, TLC

VARIABLES
    seed,       \* Noise3D.seed
    perm,       \* Noise3D.perm, the 512-entry table (a function on 0..511)
    npc,        \* where the Noise3D object is: "shuffle", "copy" (constructor) or "ready"
    p,          \* initPermutation's local array p (a tuple), as it is left at the return
    rng,        \* initPermutation's local rng as limbs <<hi, lo>>
    si,         \* initPermutation's loop counter i
    sj,         \* history: the index j of the latest swap
    prev,       \* history: the operation called just before the latest call, or "none"
    last,       \* the most recent call on the Noise3D object and its result
    cin,        \* a combinator call: operation, octaves, persistence, noise samples
    cout,       \* its return value, <<>> until it has returned
    body,       \* a generate* call: its argument and the values it draws at its start
    canvas,     \* the canvas it created: [w, h]
    gpc,        \* "loop" inside the frame / py / px loops, "done" after the return
    gframe,     \* loop counter frame
    gpy,        \* loop counter py
    gpx,        \* loop counter px
    blk,        \* the block of the latest loop iteration: geometry, alpha, fillRect
    body2,      \* a second generate* call with the same arguments and seed, <<>> if none
    blk2,       \* the block the second call computes in the same loop iteration
    kin,        \* the arguments of a colour lookup
    kout,       \* what the lookup returned, NoColor before it has run
    kn,         \* how many times the lookup has run on kin
    argv,       \* process.argv.slice(2), as the set of its elements
    mpc,        \* "cli" before the flags are read, then "run", "done", "usage" or "crashed"
    mcat,       \* index of the category the async function is in (1..4), 5 past the last
    mitem,      \* index of the sprite the category's loop is at
    mstep,      \* "enter", "generate", "encode" or "write": the next step of the category
    dirs,       \* the category directories that exist
    files,      \* the files written so far
    started,    \* the categories whose generateAll function has been called, in order
    usage,      \* TRUE once the usage message is printed
    made,       \* how many sprites the generate functions have returned
    exitCode,   \* the exit status, -1 while the process runs
    thrown      \* history: the call that threw, as a tuple, <<>> while none has

noiseVars == <<seed, perm, npc, p, rng, si, sj, prev, last>>
combVars == <<cin, cout>>
genVars == <<body, canvas, gpc, gframe, gpy, gpx, blk, body2, blk2>>
classVars == <<kin, kout, kn>>
mainVars == <<argv, mpc, mcat, mitem, mstep, dirs, files, started, usage, made, exitCode,
              thrown>>

vars == <<seed, perm, npc, p, rng, si, sj, prev, last, cin, cout,
          body, canvas, gpc, gframe, gpy, gpx, blk, body2, blk2, kin, kout, kn,
          argv, mpc, mcat, mitem, mstep, dirs, files, started, usage, made, exitCode,
          thrown>>

-----------------------------------------------------------------------------
(* Bounds of the model *)

\* the seeds -1..MaxSeed are explored besides the default seed
MaxSeed == 0
\* noise coordinates are multiples of 1/2: x in -1..MaxCoord, y in 0..MaxCoord
\* and z in 0..1 halves.  On halves every intermediate value of noise() is a
\* dyadic rational of few bits, so the doubles of the code are these exact values.
MaxCoord == 1
\* octaves range over 1..MaxOctaves
MaxOctaves == 3
\* the persistence argument of fbm ranges over the halves -MaxPers/2 .. MaxPers/2
MaxPers == 2
\* body sizes (the side of one frame, in pixels) range over MinBodySize..MaxBodySize;
\* the configured sizes (180 to 1600) are scaled down to these
MinBodySize == 5
MaxBodySize == 8
\* frame counts range over 1..MaxFrames (configured: 8, 24, 16, 8)
MaxFrames == 2
\* Math.random() returns one of 0, 1/RandDen, ..., (RandDen - 1)/RandDen
RandDen == 5
\* elevation ranges over the multiples of 1/ElevDen in [0, 1] and the breakpoints
ElevDen == 20
\* a colour lookup is evaluated up to MaxEvals times on the same arguments
MaxEvals == 2
MaxStarSize == 20

-----------------------------------------------------------------------------
(* Exact rational arithmetic standing for the double arithmetic *)

Abs(n) == IF n < 0 THEN -n ELSE n

RECURSIVE Gcd(_, _)
Gcd(a, b) == IF b = 0 THEN a ELSE Gcd(b, a % b)

\* the rational n/d in lowest terms with a positive denominator; d = 0 keeps
\* only the sign of n (NaN, +Infinity, -Infinity)
Reduce(n, d, g) == IF d < 0 THEN <<-(n \div g), -(d \div g)>> ELSE <<n \div g, d \div g>>
Rat(n, d) ==
    IF d = 0 THEN <<(IF n > 0 THEN 1 ELSE IF n < 0 THEN -1 ELSE 0), 0>>
    ELSE Reduce(n, d, Gcd(Abs(n), Abs(d)))

RInt(n) == <<n, 1>>
IsFinite(a) == a[2] # 0
IsNaN(a) == a = <<0, 0>>

AddOver(a, b, g) == Rat(a[1] * (b[2] \div g) + b[1] * (a[2] \div g), a[2] * (b[2] \div g))
RAdd(a, b) ==
    IF IsFinite(a) /\ IsFinite(b)
    THEN AddOver(a, b, Gcd(a[2], b[2]))
    ELSE IF IsNaN(a) \/ IsNaN(b) THEN <<0, 0>>
    ELSE IF IsFinite(a) THEN b
    ELSE IF IsFinite(b) THEN a
    ELSE IF a = b THEN a ELSE <<0, 0>>

RNeg(a) == <<-a[1], a[2]>>
RSub(a, b) == RAdd(a, RNeg(b))

Sign(n) == IF n > 0 THEN 1 ELSE IF n < 0 THEN -1 ELSE 0

RMul(a, b) ==
    IF IsFinite(a) /\ IsFinite(b)
    THEN Rat(a[1] * b[1], a[2] * b[2])
    ELSE <<Sign(a[1]) * Sign(b[1]), 0>>

\* a / b as JavaScript divides: x/0 is +-Infinity and 0/0 is NaN
RDiv(a, b) ==
    IF IsFinite(a) /\ IsFinite(b)
    THEN IF b[1] = 0 THEN <<Sign(a[1]), 0>>
         ELSE RMul(a, Rat(b[2], b[1]))
    ELSE IF IsFinite(b) /\ ~IsNaN(a) THEN <<a[1] * (IF b[1] < 0 THEN -1 ELSE 1), 0>>
    ELSE IF IsFinite(a) /\ ~IsNaN(b) THEN <<0, 1>>
    ELSE <<0, 0>>

\* comparisons; any comparison with NaN is false
RLt(a, b) ==
    IF IsNaN(a) \/ IsNaN(b) THEN FALSE
    ELSE IF IsFinite(a) /\ IsFinite(b) THEN a[1] * b[2] < b[1] * a[2]
    ELSE IF IsFinite(a) THEN b[1] > 0
    ELSE IF IsFinite(b) THEN a[1] < 0
    ELSE a[1] < b[1]
RLe(a, b) == RLt(a, b) \/ (~IsNaN(a) /\ a = b)
RGt(a, b) == RLt(b, a)
RGe(a, b) == RLe(b, a)

RAbs(a) == <<Abs(a[1]), a[2]>>
RMin(a, b) == IF IsNaN(a) \/ IsNaN(b) THEN <<0, 0>> ELSE IF RLt(b, a) THEN b ELSE a
RMax(a, b) == IF IsNaN(a) \/ IsNaN(b) THEN <<0, 0>> ELSE IF RLt(a, b) THEN b ELSE a
\* Math.floor of a finite rational
RFloor(a) == a[1] \div a[2]

Half == <<1, 2>>
Zero == <<0, 1>>
One == <<1, 1>>

-----------------------------------------------------------------------------
(* Noise3D: the permutation table *)

TableSize == 256
Limb == 65536

\* seed >>> 0 as limbs <<hi, lo>> of the unsigned 32-bit value
ToUint32(s) == <<(s \div Limb) % Limb, s % Limb>>

\* (rng * 1664525 + 1013904223) >>> 0; 1664525 = 25 * 2^16 + 26125 and
\* 1013904223 = 15470 * 2^16 + 62303.  The double product is below 2^53,
\* hence exact, and >>> 0 reduces it modulo 2^32.
lcg(r) ==
    LET lo == r[2] * 26125 + 62303
        hi == ((r[1] * 26125) % Limb) + ((r[2] * 25) % Limb) + 15470 + (lo \div Limb)
    IN  <<hi % Limb, lo % Limb>>

\* rng % m for 1 <= m <= 256
RngMod(r, m) == ((r[1] % m) * (Limb % m) + r[2]) % m

\* The working array p of initPermutation is held as a tuple: entry p[i] of the
\* code is element i + 1 of the tuple.
\* [p[i], p[j]] = [p[j], p[i]]
swapOverwrite(a, i, j) == [a EXCEPT ![i + 1] = a[j + 1]]
swap(a, i, j) == [a EXCEPT ![i + 1] = a[j + 1], ![j + 1] = a[i + 1]]

\* for (let i = 0; i < 256; i++) p[i] = i
identity == [k \in 1..TableSize |-> k - 1]

\* this.perm[i] = this.perm[i + 256] = p[i], for every i
doubleCarry(a) ==
    [k \in 0..(2 * TableSize - 1) |-> a[(k % TableSize) + 1] + (k \div TableSize)]
double(a) == [k \in 0..(2 * TableSize - 1) |-> a[(k % TableSize) + 1]]

\* new Uint8Array(512): zero-filled
emptyPerm == [k \in 0..(2 * TableSize - 1) |-> 0]

-----------------------------------------------------------------------------
(* Noise3D: noise and the fractal combinators *)

(* noise() is evaluated in fixed point, which is exact: with the fractional    *)
(* parts x, y, z given as integers over a common denominator q, a gradient is  *)
(* an integer over q, a fade an integer over q^5, and each of the three        *)
(* nested lerp levels multiplies the denominator by q^5, up to q^16.           *)

Pow5(q) == q * q * q * q * q

\* fade(t) = t * t * t * (t * (t * 6 - 15) + 10), for t = n/q, over q^5
fade(n, q) == n * n * n * (n * (n * 6 - 15 * q) + 10 * q * q)

\* lerp(a, b, t) = a + t * (b - a), for t = tn/q^5; a and b over one denominator
\* d, the result over d * q^5
lerp(a, b, tn, q) == a * Pow5(q) + tn * (b - a)

\* grad(hash, x, y, z), for x, y, z over q; the result over q
grad(hash, x, y, z) ==
    LET h == hash % 16
        u == IF h < 8 THEN x ELSE y
        v == IF h < 4 THEN y ELSE IF h = 12 \/ h = 14 THEN x ELSE z
    IN  (IF h % 2 = 1 THEN -u ELSE u) + (IF (h \div 2) % 2 = 1 THEN -v ELSE v)

\* the indices noise() reads the table at, for the lattice cell of (x, y, z)
Cell(pm, x, y, z) ==
    LET X == RFloor(x) % TableSize
        Y == RFloor(y) % TableSize
        Z == RFloor(z) % TableSize
        A == pm[X] + Y
        B == pm[X + 1] + Y
    IN  [X |-> X, Y |-> Y, Z |-> Z, A |-> A, B |-> B,
         AA |-> pm[A] + Z, AB |-> pm[A + 1] + Z,
         BA |-> pm[B] + Z, BB |-> pm[B + 1] + Z]

\* the return expression of noise(): the trilinear blend of the eight corner
\* gradients, for the fractional parts x, y, z (over q) and their fades u, v, w
blend(pm, AA, AB, BA, BB, x, y, z, u, v, w, q) ==
    lerp(
      lerp(
        lerp(grad(pm[AA], x, y, z), grad(pm[BA], x - q, y, z), u, q),
        lerp(grad(pm[AB], x, y - q, z), grad(pm[BB], x - q, y - q, z), u, q),
        v, q),
      lerp(
        lerp(grad(pm[AA + 1], x, y, z - q), grad(pm[BA + 1], x - q, y, z - q), u, q),
        lerp(grad(pm[AB + 1], x, y - q, z - q), grad(pm[BB + 1], x - q, y - q, z - q), u, q),
        v, q),
      w, q)

Lcm(a, b) == (a \div Gcd(a, b)) * b

\* x -= Math.floor(x), as an integer over q (q a multiple of x's denominator)
Frac(x, q) == (x[1] % x[2]) * (q \div x[2])

noiseIn(pm, c, x, y, z, q) ==
    Rat(blend(pm, c.AA, c.AB, c.BA, c.BB, x, y, z, fade(x, q), fade(y, q), fade(z, q), q),
        q * Pow5(q) * Pow5(q) * Pow5(q))

noiseOver(pm, x0, y0, z0, q) ==
    noiseIn(pm, Cell(pm, x0, y0, z0), Frac(x0, q), Frac(y0, q), Frac(z0, q), q)

noise(pm, x0, y0, z0) == noiseOver(pm, x0, y0, z0, Lcm(x0[2], Lcm(y0[2], z0[2])))

\* The combinators read the noise only through one sample per octave:
\* sample[i] is noise(x * 2^i, y * 2^i, z * 2^i).
RECURSIVE Pow2(_)
Pow2(i) == IF i = 0 THEN 1 ELSE 2 * Pow2(i - 1)

Samples(pm, x, y, z, octaves) ==
    [i \in 0..(octaves - 1) |->
        noise(pm, RMul(x, RInt(Pow2(i))), RMul(y, RInt(Pow2(i))), RMul(z, RInt(Pow2(i))))]

\* the loop of fbm from octave i on: <<value, maxValue>> at the end
RECURSIVE fbmLoop(_, _, _, _, _, _)
fbmLoop(sample, octaves, persistence, i, acc, amplitude) ==
    IF i < octaves
    THEN fbmLoop(sample, octaves, persistence, i + 1,
                 <<RAdd(acc[1], RMul(sample[i], amplitude)), RAdd(acc[2], amplitude)>>,
                 RMul(amplitude, persistence))
    ELSE acc

\* return (value / maxValue) * 0.5 + 0.5
fbmOf(sample, octaves, persistence) ==
    LET acc == fbmLoop(sample, octaves, persistence, 0, <<Zero, Zero>>, One)
    IN  RAdd(RMul(RDiv(acc[1], acc[2]), Half), Half)

fbmMaxValue(octaves, persistence) ==
    fbmLoop([i \in 0..(octaves - 1) |-> Zero], octaves, persistence, 0, <<Zero, Zero>>, One)[2]

RECURSIVE turbulenceLoop(_, _, _, _, _)
turbulenceLoop(sample, octaves, i, acc, amplitude) ==
    IF i < octaves
    THEN turbulenceLoop(sample, octaves, i + 1,
                 <<RAdd(acc[1], RMul(RAbs(sample[i]), amplitude)), RAdd(acc[2], amplitude)>>,
                 RMul(amplitude, Half))
    ELSE acc

\* return value / maxValue
turbulenceOf(sample, octaves) ==
    LET acc == turbulenceLoop(sample, octaves, 0, <<Zero, Zero>>, One)
    IN  RDiv(acc[1], acc[2])

RECURSIVE ridgedLoop(_, _, _, _, _, _)
ridgedLoop(sample, octaves, i, value, amplitude, weight) ==
    IF i < octaves
    THEN LET s1 == RSub(One, RAbs(sample[i]))
             signal == RMul(s1, RMul(s1, weight))
         IN  ridgedLoop(sample, octaves, i + 1,
                        RAdd(value, RMul(signal, amplitude)),
                        RMul(amplitude, Half),
                        RMin(One, RMax(Zero, RMul(signal, RInt(2)))))
    ELSE value

\* return Math.min(1, Math.max(0, value * 0.5))
ridgedOf(sample, octaves) ==
    RMin(One, RMax(Zero, RMul(ridgedLoop(sample, octaves, 0, Zero, One, One), Half)))

fbm(pm, x, y, z, octaves, persistence) == fbmOf(Samples(pm, x, y, z, octaves), octaves, persistence)
turbulence(pm, x, y, z, octaves) == turbulenceOf(Samples(pm, x, y, z, octaves), octaves)
ridged(pm, x, y, z, octaves) == ridgedOf(Samples(pm, x, y, z, octaves), octaves)

-----------------------------------------------------------------------------
(* Values of the variables of a part of the program that is not running *)

NoBlock ==
    [frame |-> 0, px |-> 0, py |-> 0, radius |-> Zero, inside |-> FALSE, glow |-> FALSE,
     a |-> Zero, written |-> FALSE, rect |-> [x |-> 0, y |-> 0, w |-> 0, h |-> 0],
     rgb |-> [r |-> -1, g |-> -1, b |-> -1], theta |-> Zero, texU |-> Zero, shape |-> Zero]

GenIdle ==
    /\ body = <<>>
    /\ canvas = <<>>
    /\ gpc = "idle"
    /\ gframe = 0
    /\ gpy = 0
    /\ gpx = 0
    /\ blk = NoBlock
    /\ body2 = <<>>
    /\ blk2 = NoBlock

NoRgb == [r |-> -1, g |-> -1, b |-> -1]
NoColor ==
    [throws |-> FALSE, colors |-> <<>>, band |-> "", index |-> 0,
     rgb |-> NoRgb, bright |-> NoRgb, glow |-> NoRgb]

ClassIdle ==
    /\ kin = <<>>
    /\ kout = NoColor
    /\ kn = 0

MainIdle ==
    /\ argv = {}
    /\ mpc = "idle"
    /\ mcat = 0
    /\ mitem = 0
    /\ mstep = "enter"
    /\ dirs = {}
    /\ files = {}
    /\ started = <<>>
    /\ usage = FALSE
    /\ made = 0
    /\ exitCode = -1
    /\ thrown = <<>>

-----------------------------------------------------------------------------
(* The Noise3D object: construction, then calls of its four operations *)

\* constructor(seed = 12345)
DefaultSeed == 12345
Seeds == (-1..MaxSeed) \cup {DefaultSeed}

XCoords == {RMul(RInt(n), Half) : n \in -1..MaxCoord}
YCoords == {RMul(RInt(n), Half) : n \in 0..MaxCoord}
ZCoords == {Zero, Half}
Octaves == 1..MaxOctaves

\* this.seed and this.perm after one call of a method of the object: noise, fbm,
\* turbulence and ridged assign neither (they only read this.perm)
seedAfterCall(op, s) == s
permAfterCallScratch(op, pm) == IF op = "ridged" THEN [pm EXCEPT ![0] = pm[1]] ELSE pm
permAfterCall(op, pm) == pm

NoCall == [op |-> "none", args |-> <<>>, val |-> Zero]

\* constructor: this.seed = seed; this.perm = new Uint8Array(512); and the
\* first statements of initPermutation(seed)
NoiseInit ==
    /\ seed \in Seeds
    /\ perm = emptyPerm
    /\ npc = "shuffle"
    /\ p = identity
    /\ rng = ToUint32(seed)
    /\ si = TableSize - 1
    /\ sj = 0
    /\ prev = "none"
    /\ last = NoCall
    /\ cin = <<>>
    /\ cout = <<>>
    /\ GenIdle
    /\ ClassIdle
    /\ MainIdle

\* one iteration of "for (let i = 255; i > 0; i--)"
ShuffleStep ==
    /\ npc = "shuffle"
    /\ si > 0
    /\ rng' = lcg(rng)
    /\ sj' = RngMod(rng', si + 1)
    /\ p' = swap(p, si, sj')
    /\ si' = si - 1
    /\ UNCHANGED <<seed, perm, npc, prev, last, combVars, genVars, classVars, mainVars>>

\* the copy loop that ends initPermutation and the constructor
CopyPerm ==
    /\ npc = "shuffle"
    /\ si = 0
    /\ perm' = double(p)
    /\ npc' = "ready"
    /\ UNCHANGED <<seed, p, rng, si, sj, prev, last, combVars, genVars, classVars, mainVars>>

Called(op, args, val) ==
    /\ npc = "ready"
    /\ last' = [op |-> op, args |-> args, val |-> val]
    /\ prev' = last.op
    /\ seed' = seedAfterCall(op, seed)
    /\ perm' = permAfterCall(op, perm)
    /\ UNCHANGED <<npc, p, rng, si, sj, combVars, genVars, classVars, mainVars>>

CallNoise ==
    \E x \in XCoords, y \in YCoords, z \in ZCoords :
        Called("noise", <<x, y, z>>, noise(perm, x, y, z))

\* coordinates at the ends of the mask: -1 and 255.5 (both cell 255) and 256
\* (cell 0 again)
FarCoords == {RInt(-1), Rat(2 * TableSize - 1, 2), RInt(TableSize)}
CallNoiseFar ==
    \E x \in FarCoords, y \in FarCoords, z \in FarCoords :
        Called("noise", <<x, y, z>>, noise(perm, x, y, z))

CallFbm ==
    \E x \in XCoords, y \in YCoords, o \in Octaves :
        Called("fbm", <<x, y, Zero, o>>, fbm(perm, x, y, Zero, o, Half))

CallTurbulence ==
    \E x \in XCoords, y \in YCoords, o \in Octaves :
        Called("turbulence", <<x, y, Zero, o>>, turbulence(perm, x, y, Zero, o))

CallRidged ==
    \E x \in XCoords, y \in YCoords, o \in Octaves :
        Called("ridged", <<x, y, Zero, o>>, ridged(perm, x, y, Zero, o))

NoiseNext ==
    \/ ShuffleStep
    \/ CopyPerm
    \/ CallNoise
    \/ CallNoiseFar
    \/ CallFbm
    \/ CallTurbulence
    \/ CallRidged

SpecNoise == NoiseInit /\ [][NoiseNext]_vars

-----------------------------------------------------------------------------
(* The combinators as pure functions of their noise samples: the inputs are  *)
(* drawn at the start, one action per combinator applies it.                 *)

\* noise samples in [-1, 1]
SampleValues == {RMul(RInt(n), Half) : n \in -2..2}
Persistences == {RMul(RInt(n), Half) : n \in -MaxPers..MaxPers}

CombInputs ==
    UNION {
      [op : {"fbm"}, octaves : {o}, persistence : Persistences,
       sample : [0..(o - 1) -> SampleValues]]
      \cup
      [op : {"turbulence", "ridged"}, octaves : {o}, persistence : {Half},
       sample : [0..(o - 1) -> SampleValues]]
      : o \in Octaves }

NoiseIdle ==
    /\ seed = 0
    /\ perm = <<>>
    /\ npc = "idle"
    /\ p = <<>>
    /\ rng = <<0, 0>>
    /\ si = 0
    /\ sj = 0
    /\ prev = "none"
    /\ last = NoCall

CombInit ==
    /\ NoiseIdle
    /\ GenIdle
    /\ ClassIdle
    /\ MainIdle
    /\ cin \in CombInputs
    /\ cout = <<>>

Returned(val) ==
    /\ cout = <<>>
    /\ cout' = val
    /\ UNCHANGED <<cin, noiseVars, genVars, classVars, mainVars>>

ReturnFbm ==
    /\ cin.op = "fbm"
    /\ Returned(fbmOf(cin.sample, cin.octaves, cin.persistence))

ReturnTurbulence ==
    /\ cin.op = "turbulence"
    /\ Returned(turbulenceOf(cin.sample, cin.octaves))

ReturnRidged ==
    /\ cin.op = "ridged"
    /\ Returned(ridgedOf(cin.sample, cin.octaves))

CombNext ==
    \/ ReturnFbm
    \/ ReturnTurbulence
    \/ ReturnRidged

SpecComb == CombInit /\ [][CombNext]_vars

-----------------------------------------------------------------------------
(* Claims about the Noise3D object, under SpecNoise *)

Combinators == {"fbm", "turbulence", "ridged"}

\* C1: for every seed, the constructed 512-entry table is a doubled permutation
\* of 0..255: perm[0..255] holds each value 0..255 exactly once and
\* perm[i + 256] = perm[i]; the shuffle keeps p a permutation at every step
\* and only swaps entries i and j with 0 <= j <= i.
C1_DoubledPermutation ==
    /\ {p[k] : k \in 1..TableSize} = 0..(TableSize - 1)
    /\ 0 <= sj /\ sj <= si + 1
    /\ npc = "ready" =>
         /\ DOMAIN perm = 0..(2 * TableSize - 1)
         /\ {perm[i] : i \in 0..(TableSize - 1)} = 0..(TableSize - 1)
         /\ \A i \in 0..(TableSize - 1) : perm[i + TableSize] = perm[i]

\* a table built from a negative seed, and shuffled
C1_Witness ==
    /\ npc = "ready"
    /\ seed < 0
    /\ \E i \in 0..(TableSize - 1) : perm[i] # i

\* C2: once constructed the object is immutable: no call of noise, fbm,
\* turbulence or ridged changes seed or perm, and every noise(x, y, z), after
\* any calls before it, returns the value fixed by the table as constructed
\* (so a repeated call with the same arguments returns the same value).
C2_Immutable ==
    [][npc = "ready" =>
         /\ seed' = seed
         /\ perm' = perm
         /\ last'.op = "noise" =>
              last'.val = noise(double(p), last'.args[1], last'.args[2], last'.args[3])]_vars

\* a noise call made right after a call of one of the combinators
C2_Witness ==
    /\ npc = "ready"
    /\ prev \in Combinators
    /\ last.op = "noise"
    /\ last.val # Zero

\* the table indices one call of noise reads, for the cell c
ReadIndices(c) ==
    {c.X, c.X + 1, c.A, c.A + 1, c.B, c.B + 1, c.AA, c.AB, c.BA, c.BB,
     c.AA + 1, c.AB + 1, c.BA + 1, c.BB + 1}

\* C17: every index a call of noise reads the table at (X, X+1, A, A+1, B,
\* B+1, AA, AB, BA, BB and these four plus one) lies in 0..511, inside the
\* 512-entry table: X, Y and Z are in 0..255 and every entry of the table is
\* at most 255.
C17_IndicesInTable ==
    npc = "ready" =>
        /\ DOMAIN perm = 0..511
        /\ \A k \in DOMAIN perm : perm[k] \in 0..255
        /\ last.op = "noise" =>
               LET c == Cell(perm, last.args[1], last.args[2], last.args[3])
               IN  /\ c.X \in 0..255
                   /\ c.Y \in 0..255
                   /\ c.Z \in 0..255
                   /\ ReadIndices(c) \subseteq 0..511

\* a call at negative coordinates, masked to cell 255, that reads past index 256
C17_Witness ==
    /\ npc = "ready"
    /\ last.op = "noise"
    /\ last.args = <<RInt(-1), RInt(-1), RInt(-1)>>
    /\ LET c == Cell(perm, last.args[1], last.args[2], last.args[3])
       IN  /\ c.X = 255
           /\ c.X + 1 = 256
           /\ c.A >= 256
           /\ c.AA >= 256

-----------------------------------------------------------------------------
(* Claims about the combinators, under SpecComb *)

InUnit(a) == IsFinite(a) /\ RLe(Zero, a) /\ RLe(a, One)

\* C3: for any octaves >= 1 and any finite persistence, with every
\* noise sample in [-1, 1], the results of fbm, turbulence and ridged lie in
\* [0, 1], and the divisor maxValue of fbm is never zero.
C3_AnyPersistence ==
    cout # <<>> =>
        /\ InUnit(cout)
        /\ cin.op = "fbm" => fbmMaxValue(cin.octaves, cin.persistence) # Zero

\* The part of C3 that holds: the same for turbulence and ridged, and for fbm
\* whenever 0 <= persistence <= 1; then maxValue >= 1.
C3_UnitRange ==
    cout # <<>> =>
        /\ cin.op \in {"turbulence", "ridged"} => InUnit(cout)
        /\ (cin.op = "fbm" /\ RLe(Zero, cin.persistence) /\ RLe(cin.persistence, One)) =>
              /\ InUnit(cout)
              /\ RGe(fbmMaxValue(cin.octaves, cin.persistence), One)

-----------------------------------------------------------------------------
(* Colour lookup: the palettes, hexToRgb, the selection of a palette by key
   and getPlanetSurfaceColor. A colour string '#rrggbb' is the tuple of its
   six hexadecimal digits; an object is a function of its own property
   names; undefined is the empty tuple. *)

STAR_COLORS ==
    [O |-> [base |-> <<10,10,12,12,15,15>>, bright |-> <<15,15,15,15,15,15>>, glow |-> <<5,5,8,8,15,15>>],
     B |-> [base |-> <<11,11,13,13,15,15>>, bright |-> <<15,15,15,15,15,15>>, glow |-> <<6,6,9,9,15,15>>],
     A |-> [base |-> <<13,13,14,14,15,15>>, bright |-> <<15,15,15,15,15,15>>, glow |-> <<10,10,11,11,14,14>>],
     F |-> [base |-> <<15,15,15,15,15,8>>, bright |-> <<15,15,15,15,15,15>>, glow |-> <<14,14,14,14,14,14>>],
     G |-> [base |-> <<15,15,15,4,14,10>>, bright |-> <<15,15,15,15,10,10>>, glow |-> <<15,15,14,14,12,12>>],
     K |-> [base |-> <<15,15,12,12,8,8>>, bright |-> <<15,15,14,14,6,6>>, glow |-> <<15,15,10,10,6,6>>],
     M |-> [base |-> <<15,15,9,9,6,6>>, bright |-> <<15,15,12,12,4,4>>, glow |-> <<15,15,7,7,4,4>>],
     BrownDwarf |-> [base |-> <<8,11,4,5,1,3>>, bright |-> <<12,13,8,5,3,15>>, glow |-> <<6,10,3,10,1,10>>],
     WhiteDwarf |-> [base |-> <<15,0,15,0,15,15>>, bright |-> <<15,15,15,15,15,15>>, glow |-> <<13,0,13,0,15,15>>],
     NeutronStar |-> [base |-> <<0,0,15,15,15,15>>, bright |-> <<15,15,15,15,15,15>>, glow |-> <<0,0,12,12,12,12>>],
     Pulsar |-> [base |-> <<15,15,0,0,15,15>>, bright |-> <<15,15,15,15,15,15>>, glow |-> <<12,12,0,0,12,12>>],
     RedGiant |-> [base |-> <<15,15,6,3,4,7>>, bright |-> <<15,15,10,10,7,7>>, glow |-> <<15,15,4,4,2,0>>],
     BlueGiant |-> [base |-> <<5,0,8,0,15,0>>, bright |-> <<12,0,13,0,15,15>>, glow |-> <<3,0,5,0,12,0>>],
     RedSuperGiant |-> [base |-> <<15,15,2,0,0,0>>, bright |-> <<15,15,8,0,6,0>>, glow |-> <<10,10,0,0,0,0>>],
     BlueSuperGiant |-> [base |-> <<0,0,6,6,15,15>>, bright |-> <<8,8,12,12,15,15>>, glow |-> <<0,0,3,0,12,12>>]]

PLANET_COLORS_LITERAL ==
    [terran |->
        [deep_ocean |-> <<<<0,0,1,4,2,8>>, <<0,0,2,8,4,6>>, <<0,0,3,13,5,12>>>>,
         ocean |-> <<<<0,0,6,6,10,10>>, <<0,0,8,8,12,12>>, <<0,0,10,10,14,14>>>>,
         shallow |-> <<<<3,3,12,12,15,15>>, <<6,6,13,13,15,15>>>>,
         beach |-> <<<<12,8,11,0,9,0>>, <<14,8,13,0,11,0>>, <<15,8,14,0,13,0>>>>,
         grass |-> <<<<2,13,5,0,1,6>>, <<3,13,7,0,2,6>>, <<5,13,9,0,4,6>>, <<7,13,10,10,6,6>>, <<9,13,12,12,8,8>>>>,
         forest |-> <<<<0,10,3,10,0,10>>, <<1,10,4,10,1,10>>, <<2,10,6,10,2,10>>, <<4,10,8,10,4,10>>>>,
         mountain |-> <<<<4,11,3,11,2,11>>, <<6,11,5,11,4,11>>, <<8,11,7,11,6,11>>, <<10,11,9,11,8,11>>>>,
         snow |-> <<<<13,8,14,8,15,8>>, <<15,0,15,8,15,15>>, <<15,15,15,15,15,15>>>>,
         cloud |-> <<<<15,15,15,15,15,15>>, <<15,8,15,12,15,15>>>>,
         cities |-> <<<<15,15,13,13,8,8>>, <<15,15,14,14,9,9>>>>],
     rocky |->
        [dark |-> <<<<1,10,1,5,1,2>>, <<2,10,2,5,1,15>>, <<3,10,3,5,2,12>>>>,
         surface |-> <<<<3,10,2,13,2,2>>, <<4,10,3,13,3,2>>, <<6,10,5,13,5,2>>, <<8,10,7,13,7,2>>>>,
         crater |-> <<<<0,10,0,5,0,2>>, <<1,10,1,5,1,2>>>>,
         highland |-> <<<<10,10,9,13,9,2>>, <<12,10,11,10,10,0>>, <<14,10,13,10,12,0>>>>,
         dust |-> <<<<11,8,9,0,6,0>>, <<12,8,10,0,7,0>>>>],
     desert |->
        [sand_dark |-> <<<<11,8,9,0,6,0>>, <<12,8,10,0,7,0>>>>,
         sand |-> <<<<13,2,11,4,8,12>>, <<14,6,12,8,10,0>>, <<15,10,13,12,11,4>>>>,
         dune_shadow |-> <<<<10,0,7,8,5,0>>, <<11,0,8,8,6,0>>>>,
         rock |-> <<<<6,10,5,10,4,10>>, <<7,10,6,10,5,10>>, <<8,10,7,10,6,10>>, <<10,10,9,10,8,10>>>>,
         canyon_deep |-> <<<<5,0,3,0,2,0>>, <<6,0,4,0,3,0>>>>,
         canyon |-> <<<<7,0,5,0,4,0>>, <<9,0,7,0,6,0>>>>],
     ice |->
        [deep |-> <<<<2,0,6,0,10,0>>, <<3,0,7,0,10,0>>, <<4,0,8,0,11,0>>>>,
         surface |-> <<<<7,0,11,0,13,0>>, <<8,0,12,8,14,0>>, <<10,0,14,0,15,0>>, <<12,0,15,0,15,15>>>>,
         crevasse |-> <<<<0,8,1,0,1,8>>, <<1,0,2,0,3,0>>, <<2,0,3,0,4,0>>>>,
         snow |-> <<<<13,0,14,8,15,15>>, <<14,0,15,0,15,15>>, <<15,0,15,8,15,15>>, <<15,15,15,15,15,15>>>>],
     lava |->
        [molten_bright |-> <<<<15,15,15,15,0,0>>, <<15,15,14,14,0,0>>>>,
         molten_hot |-> <<<<15,15,10,10,0,0>>, <<15,15,8,8,0,0>>, <<15,15,6,6,0,0>>>>,
         molten |-> <<<<15,15,4,4,0,0>>, <<15,15,3,3,0,0>>>>,
         cooling |-> <<<<15,15,2,2,0,0>>, <<12,12,0,0,0,0>>, <<10,10,0,0,0,0>>>>,
         crust_warm |-> <<<<3,10,2,10,2,10>>, <<4,10,3,10,3,10>>, <<5,10,4,10,4,10>>>>,
         crust |-> <<<<1,10,1,10,1,10>>, <<2,10,2,10,2,10>>>>],
     ocean |->
        [deep |-> <<<<0,0,0,8,1,4>>, <<0,0,1,4,2,8>>, <<0,0,2,8,4,6>>, <<0,0,4,8,7,8>>>>,
         mid |-> <<<<0,0,6,6,10,10>>, <<0,0,8,8,12,12>>, <<0,0,9,8,13,12>>>>,
         surface |-> <<<<2,0,12,0,15,15>>, <<4,0,13,0,15,15>>, <<6,0,14,0,15,15>>>>,
         foam |-> <<<<13,0,15,8,15,15>>, <<14,0,15,12,15,15>>, <<15,15,15,15,15,15>>>>],
     jungle |->
        [canopy_dark |-> <<<<0,10,4,10,0,10>>, <<1,10,5,10,1,10>>>>,
         canopy |-> <<<<2,10,7,10,2,10>>, <<4,10,9,10,4,10>>, <<6,10,11,10,6,10>>>>,
         understory |-> <<<<0,10,3,10,0,10>>, <<1,10,4,10,1,10>>, <<2,10,6,10,2,10>>>>,
         flower |-> <<<<15,15,6,6,8,8>>, <<15,15,8,8,10,10>>, <<15,15,10,10,12,12>>>>,
         river |-> <<<<4,10,7,10,7,10>>, <<6,10,9,10,9,10>>>>],
     gas_giant |->
        [band1_dark |-> <<<<6,11,4,9,1,4>>, <<7,11,5,9,1,4>>>>,
         band1 |-> <<<<8,11,6,9,1,4>>, <<9,11,7,9,3,4>>, <<10,11,8,9,3,4>>>>,
         band2_light |-> <<<<14,2,12,5,9,4>>, <<15,2,13,5,10,4>>, <<15,12,14,5,11,4>>>>,
         band2 |-> <<<<12,4,9,5,6,4>>, <<13,4,10,5,7,4>>>>,
         storm |-> <<<<12,12,3,3,2,2>>, <<14,14,6,6,4,4>>, <<15,15,8,8,6,6>>>>,
         cloud |-> <<<<15,15,15,15,15,15>>, <<15,8,15,8,15,15>>>>]]

moreTypes ==
    {"frozen", "tundra", "volcanic", "carbon", "crystal", "metal", "eyeball",
     "tidally_locked", "radioactive", "super_earth"}
\* the table once the forEach of moreTypes has run
PLANET_COLORS ==
    [t \in DOMAIN PLANET_COLORS_LITERAL \cup moreTypes |->
        IF t \in DOMAIN PLANET_COLORS_LITERAL THEN PLANET_COLORS_LITERAL[t]
        ELSE PLANET_COLORS_LITERAL.terran]

Undefined == <<>>
\* names every object inherits from Object.prototype, and what they hold:
\* a function or object without any of the properties the code reads
ObjectPrototypeKeys == {"constructor", "toString"}
ObjectMember == [prototype |-> Undefined]
Truthy(v) == DOMAIN v # {}
\* obj[key]
Get(obj, key) ==
    IF key \in DOMAIN obj THEN obj[key]
    ELSE IF key \in ObjectPrototypeKeys THEN ObjectMember
    ELSE Undefined
\* list[index], index counting from 0
At(list, index) == IF index + 1 \in DOMAIN list THEN list[index + 1] ELSE Undefined

hexToRgb(hex) ==
    IF DOMAIN hex = 1..6 /\ \A k \in 1..6 : hex[k] \in 0..15
    THEN [r |-> 16 * hex[1] + hex[2], g |-> 16 * hex[3] + hex[4], b |-> 16 * hex[5] + hex[6]]
    ELSE [r |-> 128, g |-> 128, b |-> 128]

\* a % b of JavaScript on integers, b > 0
JSRem(a, b) == IF a >= 0 THEN a % b ELSE -((-a) % b)
\* Math.floor(v * len) % len
floorIndex(v, len) == JSRem(RFloor(RMul(v, RInt(len))), len)

\* PLANET_COLORS[type] || PLANET_COLORS.terran
planetColors(type) ==
    LET c == Get(PLANET_COLORS, type)
    IN  IF Truthy(c) THEN c ELSE PLANET_COLORS.terran
\* STAR_COLORS[stellarClass] || STAR_COLORS['G']
starColors(stellarClass) ==
    LET c == Get(STAR_COLORS, stellarClass)
    IN  IF Truthy(c) THEN c ELSE STAR_COLORS.G

\* hexToRgb(list[index]) where list is colors[band] or, when band is
\* "literal", a list written in the code; reading an element of undefined throws
Pick(colors, band, list, index) ==
    IF Truthy(list)
    THEN [throws |-> FALSE, colors |-> colors, band |-> band, index |-> index,
          rgb |-> hexToRgb(At(list, index)), bright |-> NoRgb, glow |-> NoRgb]
    ELSE [throws |-> TRUE, colors |-> colors, band |-> band, index |-> index,
          rgb |-> NoRgb, bright |-> NoRgb, glow |-> NoRgb]
First(colors, band) == Pick(colors, band, Get(colors, band), 0)
Scaled(colors, band, v) ==
    LET list == Get(colors, band)
    IN  Pick(colors, band, list, IF Truthy(list) THEN floorIndex(v, Len(list)) ELSE 0)

D(n) == Rat(n, 100)

terranBandInclusive(elevation, moisture) ==
    IF RLe(elevation, D(35))
    THEN IF RGt(RSub(D(35), elevation), D(15)) THEN "deep_ocean"
         ELSE IF RGt(RSub(D(35), elevation), D(8)) THEN "ocean"
         ELSE "shallow"
    ELSE IF RLt(elevation, D(37)) THEN "beach"
    ELSE IF RGt(elevation, D(80)) THEN (IF RGt(elevation, D(88)) THEN "snow" ELSE "mountain")
    ELSE IF RGt(moisture, D(60)) THEN "forest"
    ELSE "grass"
terranBand(elevation, moisture) ==
    IF RLt(elevation, D(35))
    THEN IF RGt(RSub(D(35), elevation), D(15)) THEN "deep_ocean"
         ELSE IF RGt(RSub(D(35), elevation), D(8)) THEN "ocean"
         ELSE "shallow"
    ELSE IF RLt(elevation, D(37)) THEN "beach"
    ELSE IF RGt(elevation, D(80)) THEN (IF RGt(elevation, D(88)) THEN "snow" ELSE "mountain")
    ELSE IF RGt(moisture, D(60)) THEN "forest"
    ELSE "grass"

terran(colors, elevation, moisture) ==
    LET band == terranBand(elevation, moisture)
    IN  IF band = "forest" THEN Scaled(colors, "forest", moisture)
        ELSE IF band = "grass" THEN Scaled(colors, "grass", elevation)
        ELSE First(colors, band)

desert(colors, elevation, duneNoise) ==
    IF RLt(elevation, D(30))
    THEN (IF Truthy(Get(colors, "canyon_deep")) THEN First(colors, "canyon_deep")
          ELSE First(colors, "sand_dark"))
    ELSE IF RGt(elevation, D(75)) THEN First(colors, "rock")
    ELSE IF duneNoise THEN First(colors, "sand")
    ELSE First(colors, "sand_dark")

ice(colors, elevation) ==
    IF RLt(elevation, D(25)) THEN First(colors, "crevasse")
    ELSE IF RGt(elevation, D(80)) THEN First(colors, "snow")
    ELSE Scaled(colors, "surface", elevation)

lava(colors, elevation) ==
    LET heat == RSub(One, RDiv(elevation, D(38)))
    IN  IF RLt(elevation, D(38))
        THEN IF RGt(heat, D(85))
             THEN (IF Truthy(Get(colors, "molten_bright")) THEN First(colors, "molten_bright")
                   ELSE First(colors, "molten_hot"))
             ELSE IF RGt(heat, D(60)) THEN First(colors, "molten_hot")
             ELSE IF RGt(heat, D(40)) THEN First(colors, "molten")
             ELSE First(colors, "cooling")
        ELSE IF RGt(elevation, D(60)) THEN First(colors, "crust_warm")
        ELSE First(colors, "crust")

ocean(colors, elevation) ==
    LET depth == RSub(One, elevation)
    IN  IF RGt(depth, D(70)) THEN First(colors, "deep")
        ELSE IF RGt(depth, D(40)) THEN First(colors, "mid")
        ELSE IF RGt(depth, D(15)) THEN First(colors, "surface")
        ELSE First(colors, "foam")

jungle(colors, elevation, moisture) ==
    IF RLt(elevation, D(30)) THEN First(colors, "river")
    ELSE IF RGt(moisture, D(60)) THEN Scaled(colors, "canopy", elevation)
    ELSE IF Truthy(Get(colors, "understory")) THEN First(colors, "understory")
    ELSE First(colors, "canopy_dark")

\* default: colors.surface || colors.grass || ['#888888']
generic(colors, elevation) ==
    IF Truthy(Get(colors, "surface")) THEN Scaled(colors, "surface", elevation)
    ELSE IF Truthy(Get(colors, "grass")) THEN Scaled(colors, "grass", elevation)
    ELSE Pick(colors, "literal", <<<<8,8,8,8,8,8>>>>, floorIndex(elevation, 1))

\* bandValue = (bandPattern + 1) * 0.5 + turbulence, turbulence being
\* noise.turbulence(...) * 0.3
bandValueOf(bandPattern, turb) ==
    RAdd(RMul(RAdd(bandPattern, One), Half), RMul(turb, D(30)))
colorKeyOfInclusive(bandValue) ==
    IF RLe(bandValue, D(25)) THEN "band1_dark"
    ELSE IF RLe(bandValue, D(50)) THEN "band1"
    ELSE IF RLe(bandValue, D(75)) THEN "band2"
    ELSE "band2_light"
colorKeyOf(bandValue) ==
    IF RLt(bandValue, D(25)) THEN "band1_dark"
    ELSE IF RLt(bandValue, D(50)) THEN "band1"
    ELSE IF RLt(bandValue, D(75)) THEN "band2"
    ELSE "band2_light"
gasGiant(colors, bandValue, stormNoise, latitude) ==
    LET colorKey == colorKeyOf(bandValue)
        own == Get(colors, colorKey)
        bandColors == IF Truthy(own) THEN own
                      ELSE IF Truthy(Get(colors, "band1")) THEN Get(colors, "band1")
                      ELSE <<<<10,10,8,8,4,4>>>>
        bandName == IF Truthy(own) THEN colorKey
                    ELSE IF Truthy(Get(colors, "band1")) THEN "band1"
                    ELSE "literal"
        colorIndex == floorIndex(bandValue, Len(bandColors))
    IN  IF RGt(stormNoise, D(75)) /\ RLt(RAbs(latitude), Half)
        THEN IF Truthy(Get(colors, "storm")) THEN First(colors, "storm")
             ELSE Pick(colors, "literal", <<<<12,12,4,4,2,2>>>>, 0)
        ELSE Pick(colors, bandName, bandColors, colorIndex)

getPlanetSurfaceColor(type, elevation, moisture, colors, isGasGiant, g) ==
    IF isGasGiant
    THEN gasGiant(colors, bandValueOf(g.bandPattern, g.turbulence), g.stormNoise, g.latitude)
    ELSE IF type = "terran" THEN terran(colors, elevation, moisture)
    ELSE IF type = "desert" THEN desert(colors, elevation, g.duneNoise)
    ELSE IF type = "ice" THEN ice(colors, elevation)
    ELSE IF type = "lava" THEN lava(colors, elevation)
    ELSE IF type = "ocean" THEN ocean(colors, elevation)
    ELSE IF type = "jungle" THEN jungle(colors, elevation, moisture)
    ELSE generic(colors, elevation)

-----------------------------------------------------------------------------
(* The four generators: generateStar, generatePlanet, generateMoon and
   generateAsteroid. Each creates its canvas and runs the frame / py / px
   loops; one action is one iteration of the innermost loop body. Distances
   are compared exactly through their squares. A noise value read by a loop
   body is any of the levels 0, 1/2, 1 of the range the combinators have.
   Where a square root enters an alpha value, dist is rounded down to
   1/100 and so is the normalised glow distance, which keeps a positive
   alpha positive. The colour channels are not part of blk. *)

stellarClasses ==
    {"O", "B", "A", "F", "G", "K", "M", "BrownDwarf", "WhiteDwarf", "NeutronStar",
     "Pulsar", "RedGiant", "BlueGiant", "RedSuperGiant", "BlueSuperGiant"}
planetTypes ==
    {"terran", "rocky", "desert", "ice", "frozen", "tundra", "lava", "volcanic",
     "ocean", "carbon", "crystal", "metal", "eyeball", "tidally_locked",
     "radioactive", "super_earth", "jungle", "gas_giant"}

starPixelSize == 2
planetPixelSize == 2
moonPixelSize == 2
asteroidPixelSize == 2

UnitLevels == {Zero, Half, One}
RandomLevels == {Rat(k, RandDen) : k \in 0..(RandDen - 1)}
FrameCounts == 1..MaxFrames
\* starSizes and planetSizes hold even sizes only
TableSizes == {s \in MinBodySize..MaxBodySize : s % 2 = 0}
\* min + Math.floor(Math.random() * (max - min))
randomSize(r) == MinBodySize + RFloor(RMul(r, RInt(MaxBodySize - MinBodySize)))
\* 0.3 + Math.random() * 0.3
randomIrregularity(r) == RAdd(Rat(3, 10), RMul(r, Rat(3, 10)))
\* Math.random() > 0.5
randomIsIcy(r) == RGt(r, Half)

createCanvas(w, h) == [w |-> w, h |-> h]
atlasNarrow(size, frames) == createCanvas(size, size)
atlas(size, frames) == createCanvas(size * frames, size)
offsetX(frame, size) == frame * size
\* Math.ceil(size / pixelSize), the bound of the px and py loops
pixelWidth(size, pixelSize) == (size + pixelSize - 1) \div pixelSize
fillRect(frame, size, px, py, pixelSize) ==
    [x |-> offsetX(frame, size) + px * pixelSize, y |-> py * pixelSize,
     w |-> pixelSize, h |-> pixelSize]

\* twice dx (or dy): x = px * pixelSize + pixelSize / 2, dx = x - size / 2
Dx2(px, size, pixelSize) == 2 * px * pixelSize + pixelSize - size
\* four times dist squared
Dist2x4(px, py, size, pixelSize) ==
    Dx2(px, size, pixelSize) * Dx2(px, size, pixelSize)
    + Dx2(py, size, pixelSize) * Dx2(py, size, pixelSize)
\* dist <= r and dist < r for a rational r >= 0, d being four times dist squared
DistLe(d, r) == d * r[2] * r[2] <= 4 * r[1] * r[1]
DistLt(d, r) == d * r[2] * r[2] < 4 * r[1] * r[1]

RECURSIVE IsqrtIn(_, _, _)
IsqrtIn(n, lo, hi) ==
    IF lo = hi THEN lo
    ELSE LET mid == (lo + hi + 1) \div 2
         IN  IF mid * mid <= n THEN IsqrtIn(n, mid, hi) ELSE IsqrtIn(n, lo, mid - 1)
Isqrt(n) == IsqrtIn(n, 0, 46340)
\* dist and a ratio of distances, rounded down to 1/100
DistDown(d) == Rat(Isqrt(d * 2500), 100)
QDown(r) == Rat(RFloor(RMul(r, RInt(100))), 100)

starRadius(size) == Rat(size * 38, 100)
planetRadius(size) == Rat(size * 42, 100)
moonRadius(size) == Rat(size * 45, 100)
asteroidRadiusUncentred(baseSize, shapeNoise, irregularity) ==
    RMul(Rat(baseSize * 4, 10), RAdd(One, RMul(RMul(shapeNoise, RInt(2)), irregularity)))
asteroidRadius(baseSize, shapeNoise, irregularity) ==
    RMul(Rat(baseSize * 4, 10), RAdd(One, RMul(RSub(shapeNoise, Half), irregularity)))

hasAtmosphereAll(type) == TRUE
hasAtmosphere(type) == type \in {"terran", "ocean", "jungle", "super_earth"}

\* a = glowIntensity * 200 of the corona of a star
glowAlpha(d, radius, coronaTurb) ==
    LET glowDist == QDown(RDiv(RSub(DistDown(d), radius), RMul(radius, Rat(3, 2))))
        base == RSub(One, RMin(One, glowDist))
        glowIntensity ==
            RMul(RMul(base, RMul(base, base)), RAdd(Rat(7, 10), RMul(coronaTurb, Rat(6, 10))))
    IN  RMul(glowIntensity, RInt(200))
\* a = atmosIntensity * 150 of the atmosphere of a planet
atmosAlpha(d, radius) ==
    LET atmosDist == QDown(RDiv(RSub(DistDown(d), radius), RMul(radius, Rat(15, 100))))
        base == RSub(One, atmosDist)
        atmosIntensity == RMul(base, base)
    IN  RMul(atmosIntensity, RInt(150))

\* Math.atan2(dx, z) / pi with z = sqrt(max(0, 1 - (dist / radius)^2)), rounded to
\* the nearest of -1/2, 0, 1/2: z >= 0, so the angle lies in [-pi/2, pi/2], and
\* it is nearer to 0 exactly when |dx| < z
thetaOverPi(dx2, d, radius) ==
    IF dx2 * dx2 * radius[1] * radius[1]
         < 4 * radius[1] * radius[1] - d * radius[2] * radius[2] THEN Zero
    ELSE IF dx2 > 0 THEN Half
    ELSE IF dx2 < 0 THEN RNeg(Half)
    ELSE Zero
\* rotation / pi, rotation = (frame / frames) * Math.PI * 2
rotationHalfTurn(frame, frames) == Rat(frame, frames)
rotationOverPi(frame, frames) == Rat(2 * frame, frames)
\* texU = (theta + rotation) / Math.PI
texU(theta, frame, frames) == RAdd(theta, rotationOverPi(frame, frames))

\* the sizes of the stars: the table sizes and one size at which the centre
\* of a block lies less than 1% of the radius outside the disc
StarSizes == TableSizes \cup {s \in (MaxStarSize - 1)..MaxStarSize : s % 2 = 0}
StarBodies ==
    {[kind |-> "star", type |-> c, size |-> s, frames |-> f, pixelSize |-> starPixelSize,
      irregularity |-> Zero, isIcy |-> FALSE] :
        c \in stellarClasses, s \in StarSizes, f \in FrameCounts}
PlanetBodies ==
    {[kind |-> "planet", type |-> t, size |-> s, frames |-> f,
      pixelSize |-> planetPixelSize, irregularity |-> Zero, isIcy |-> FALSE] :
        t \in planetTypes, s \in TableSizes, f \in FrameCounts}
MoonBodies ==
    {[kind |-> "moon", type |-> "", size |-> randomSize(r), frames |-> f,
      pixelSize |-> moonPixelSize, irregularity |-> Zero, isIcy |-> randomIsIcy(i)] :
        r \in RandomLevels, i \in RandomLevels, f \in FrameCounts}
AsteroidBodies ==
    {[kind |-> "asteroid", type |-> "", size |-> randomSize(r), frames |-> f,
      pixelSize |-> asteroidPixelSize, irregularity |-> randomIrregularity(i),
      isIcy |-> FALSE] :
        r \in RandomLevels, i \in RandomLevels, f \in FrameCounts}

GenInit ==
    /\ NoiseIdle
    /\ cin = <<>>
    /\ cout = <<>>
    /\ body \in StarBodies \cup PlanetBodies \cup MoonBodies \cup AsteroidBodies
    /\ canvas = atlas(body.size, body.frames)
    /\ gpc = "loop"
    /\ gframe = 0
    /\ gpy = 0
    /\ gpx = 0
    /\ blk = NoBlock
    /\ body2 = <<>>
    /\ blk2 = NoBlock
    /\ ClassIdle
    /\ MainIdle

\* the end of one iteration of the px loop: b is the block it handled
EndBlock(b) ==
    LET n == pixelWidth(body.size, body.pixelSize)
    IN  /\ blk' = b
        /\ gpx' = IF gpx + 1 < n THEN gpx + 1 ELSE 0
        /\ gpy' = IF gpx + 1 < n THEN gpy ELSE IF gpy + 1 < n THEN gpy + 1 ELSE 0
        /\ gframe' = IF gpx + 1 < n \/ gpy + 1 < n THEN gframe ELSE gframe + 1
        /\ UNCHANGED <<body, canvas, gpc, body2, blk2, noiseVars, combVars, classVars, mainVars>>

InLoop(kind) == gpc = "loop" /\ body.kind = kind /\ gframe < body.frames

\* what one iteration of the loop body of generator call bd computes for the
\* block px, py of frame f; rgb is what fillStyle gets (for a moon and an
\* asteroid the palette colour, before the lighting factor), NoRgb where the
\* colour is not modelled
Block(bd, f, px, py, radius, inside, glow, a, rgb, theta, tex, shape) ==
    [frame |-> f, px |-> px, py |-> py, radius |-> radius, inside |-> inside,
     glow |-> glow, a |-> a, written |-> RGt(a, Zero),
     rect |-> IF RGt(a, Zero) THEN fillRect(f, bd.size, px, py, bd.pixelSize)
              ELSE NoBlock.rect,
     rgb |-> IF RGt(a, Zero) THEN rgb ELSE NoRgb,
     theta |-> theta, texU |-> tex, shape |-> shape]

blockDist(bd, px, py) == Dist2x4(px, py, bd.size, bd.pixelSize)
starInside(bd, px, py) == DistLe(blockDist(bd, px, py), starRadius(bd.size))
starGlow(bd, px, py) ==
    /\ ~starInside(bd, px, py)
    /\ DistLt(blockDist(bd, px, py), RMul(starRadius(bd.size), Rat(25, 10)))

\* Math.pow(Math.max(0, 1 - normalizedDist * 1.2), 2) * 0.6, rounded down to 1/100
coreBoost(d, radius) ==
    LET normalizedDist == QDown(RDiv(DistDown(d), radius))
        t == RMax(Zero, RSub(One, RMul(normalizedDist, Rat(12, 10))))
    IN  QDown(RMul(RMul(t, t), Rat(6, 10)))
\* one channel of the surface of a star
surfaceChannelUnclamped(base, bright, mixFactor, boost) ==
    RMul(RAdd(RAdd(RMul(RInt(base), RSub(One, mixFactor)), RMul(RInt(bright), mixFactor)),
              RMul(RInt(bright), boost)),
         Rat(13, 10))
surfaceChannel(base, bright, mixFactor, boost) ==
    RMin(RInt(255),
         RMul(RAdd(RAdd(RMul(RInt(base), RSub(One, mixFactor)), RMul(RInt(bright), mixFactor)),
                   RMul(RInt(bright), boost)),
              Rat(13, 10)))
\* one channel of the corona: glow + (bright - glow) * 0.5
coronaChannel(glowC, bright) == RAdd(RInt(glowC), RMul(RInt(bright - glowC), Half))

starRgb(stellarClass, d, radius, inside, mixFactor) ==
    LET colors == starColors(stellarClass)
        baseColor == hexToRgb(Get(colors, "base"))
        brightColor == hexToRgb(Get(colors, "bright"))
        glowColor == hexToRgb(Get(colors, "glow"))
        boost == coreBoost(d, radius)
    IN  IF inside
        THEN [r |-> RFloor(surfaceChannel(baseColor.r, brightColor.r, mixFactor, boost)),
              g |-> RFloor(surfaceChannel(baseColor.g, brightColor.g, mixFactor, boost)),
              b |-> RFloor(surfaceChannel(baseColor.b, brightColor.b, mixFactor, boost))]
        ELSE [r |-> RFloor(coronaChannel(glowColor.r, brightColor.r)),
              g |-> RFloor(coronaChannel(glowColor.g, brightColor.g)),
              b |-> RFloor(coronaChannel(glowColor.b, brightColor.b))]

\* mixFactor = Math.min(1, brightness), brightness > 0
MixLevels == {Rat(1, 20), Half, One}

starBlockOf(bd, f, px, py, coronaTurb, mixFactor) ==
    LET d == blockDist(bd, px, py)
        radius == starRadius(bd.size)
        inside == starInside(bd, px, py)
        glow == starGlow(bd, px, py)
    IN  Block(bd, f, px, py, radius, inside, glow,
              IF inside THEN RInt(255)
              ELSE IF glow THEN glowAlpha(d, radius, coronaTurb)
              ELSE Zero,
              starRgb(bd.type, d, radius, inside, mixFactor),
              Zero, Zero, Zero)

planetBlockOf(bd, f, px, py) ==
    LET d == blockDist(bd, px, py)
        radius == planetRadius(bd.size)
        inside == DistLe(d, radius)
        glow == /\ hasAtmosphere(bd.type)
                /\ ~inside
                /\ DistLt(d, RMul(radius, Rat(115, 100)))
        theta == thetaOverPi(Dx2(px, bd.size, bd.pixelSize), d, radius)
    IN  Block(bd, f, px, py, radius, inside, glow,
              IF inside THEN RInt(255)
              ELSE IF glow THEN atmosAlpha(d, radius)
              ELSE Zero,
              NoRgb,
              IF inside THEN theta ELSE Zero,
              IF inside THEN texU(theta, f, bd.frames) ELSE Zero,
              Zero)

\* baseColors of a moon
moonColors(isIcy) ==
    IF isIcy
    THEN <<<<10,0,12,0,14,0>>, <<11,0,13,0,15,0>>, <<12,0,14,0,15,15>>, <<13,0,15,0,15,15>>>>
    ELSE <<<<4,10,3,13,3,2>>, <<6,10,5,13,5,2>>, <<8,10,7,13,7,2>>, <<10,10,9,13,9,2>>>>
\* colors of an asteroid
asteroidColors ==
    <<<<3,10,2,13,2,2>>, <<4,10,3,13,3,2>>, <<5,10,4,13,4,2>>, <<6,10,5,13,5,2>>>>
\* hexToRgb(list[Math.floor(combined * list.length) % list.length])
listColor(list, combined) == hexToRgb(At(list, floorIndex(combined, Len(list))))

moonBlockOf(bd, f, px, py, combined) ==
    LET d == blockDist(bd, px, py)
        radius == moonRadius(bd.size)
        inside == DistLe(d, radius)
        theta == thetaOverPi(Dx2(px, bd.size, bd.pixelSize), d, radius)
    IN  Block(bd, f, px, py, radius, inside, FALSE,
              IF inside THEN RInt(255) ELSE Zero,
              listColor(moonColors(bd.isIcy), combined),
              IF inside THEN theta ELSE Zero,
              IF inside THEN texU(theta, f, bd.frames) ELSE Zero,
              Zero)

asteroidBlockOf(bd, f, px, py, shapeNoise, combined) ==
    LET d == blockDist(bd, px, py)
        radius == asteroidRadius(bd.size, shapeNoise, bd.irregularity)
        inside == DistLe(d, radius)
    IN  Block(bd, f, px, py, radius, inside, FALSE,
              IF inside THEN RInt(255) ELSE Zero,
              listColor(asteroidColors, combined),
              Zero, Zero, shapeNoise)

\* the noise values a block reads: one level where the value is used
LevelsIf(used) == IF used THEN UnitLevels ELSE {Zero}

StarBlock ==
    /\ InLoop("star")
    /\ \E coronaTurb \in LevelsIf(starGlow(body, gpx, gpy)) :
           \E mixFactor \in IF starInside(body, gpx, gpy) THEN MixLevels ELSE {One} :
               EndBlock(starBlockOf(body, gframe, gpx, gpy, coronaTurb, mixFactor))

PlanetBlock ==
    /\ InLoop("planet")
    /\ EndBlock(planetBlockOf(body, gframe, gpx, gpy))

MoonBlock ==
    /\ InLoop("moon")
    /\ \E combined \in LevelsIf(DistLe(blockDist(body, gpx, gpy), moonRadius(body.size))) :
           EndBlock(moonBlockOf(body, gframe, gpx, gpy, combined))

AsteroidBlock ==
    /\ InLoop("asteroid")
    /\ \E shapeNoise \in UnitLevels :
           \E combined \in LevelsIf(DistLe(blockDist(body, gpx, gpy),
                                           asteroidRadius(body.size, shapeNoise,
                                                          body.irregularity))) :
               EndBlock(asteroidBlockOf(body, gframe, gpx, gpy, shapeNoise, combined))

\* return { canvas, size }
GenReturn ==
    /\ gpc = "loop"
    /\ gframe = body.frames
    /\ gpc' = "done"
    /\ UNCHANGED <<body, canvas, gframe, gpy, gpx, blk, body2, blk2, noiseVars, combVars,
                   classVars, mainVars>>

GenNext ==
    \/ StarBlock
    \/ PlanetBlock
    \/ MoonBlock
    \/ AsteroidBlock
    \/ GenReturn

SpecGen == GenInit /\ [][GenNext]_vars

-----------------------------------------------------------------------------
(* Claims about the generators, checked under SpecGen *)

Handled == gpc # "idle" /\ blk # NoBlock
BlockDist == Dist2x4(blk.px, blk.py, body.size, body.pixelSize)

\* C4: every generator creates an atlas of width size * frames and height
\* size, and each block it writes is the pixelSize square of its own px, py
\* shifted right by frame * size, with 0 <= frame < frames: the atlas is
\* frames sub-images of equal width, left to right in frame order.
C4_AtlasLayout ==
    gpc # "idle" =>
        /\ body.kind \in {"star", "planet", "moon", "asteroid"}
        /\ canvas.w = body.size * body.frames
        /\ canvas.h = body.size
        /\ blk.written =>
               /\ blk.frame \in 0..(body.frames - 1)
               /\ blk.rect.x = blk.frame * body.size + blk.px * body.pixelSize
               /\ blk.rect.y = blk.py * body.pixelSize
               /\ blk.rect.w = body.pixelSize
               /\ blk.rect.h = body.pixelSize

C4_Witness ==
    /\ gpc = "loop"
    /\ body.kind = "asteroid"
    /\ blk.written
    /\ blk.frame = body.frames - 1
    /\ blk.frame > 0
    /\ blk.rect.x > body.size

OuterGlow ==
    IF body.type \in {"terran", "ocean", "jungle", "super_earth"}
    THEN RMul(planetRadius(body.size), Rat(115, 100))
    ELSE planetRadius(body.size)

\* C5: in a planet atlas a block whose centre is at dist <= radius is written
\* with alpha 255, and a block beyond the outer glow radius (1.15 * radius for
\* terran, ocean, jungle and super_earth, radius for the other types) is not
\* written.
C5_OpaqueDiscClearOutside ==
    (Handled /\ body.kind = "planet") =>
        /\ DistLe(BlockDist, planetRadius(body.size)) =>
               /\ blk.written
               /\ blk.a = RInt(255)
               /\ blk.rect = fillRect(blk.frame, body.size, blk.px, blk.py, body.pixelSize)
        /\ ~DistLe(BlockDist, OuterGlow) =>
               /\ ~blk.written
               /\ blk.a = Zero

C5_Witness ==
    /\ Handled
    /\ body.kind = "planet"
    /\ body.type = "rocky"
    /\ ~DistLe(BlockDist, OuterGlow)
    /\ DistLt(BlockDist, RMul(planetRadius(body.size), Rat(115, 100)))
    /\ ~blk.written

\* C6: the radius an asteroid uses at a block lies between
\* baseRadius * (1 - irregularity) and baseRadius * (1 + irregularity), with
\* baseRadius = 0.4 * baseSize, shapeNoise in [0, 1] and irregularity in
\* [0.3, 0.6].
C6_RadiusWithinIrregularity ==
    (Handled /\ body.kind = "asteroid") =>
        LET baseRadius == Rat(body.size * 4, 10)
        IN  /\ InUnit(blk.shape)
            /\ RLe(Rat(3, 10), body.irregularity)
            /\ RLe(body.irregularity, Rat(6, 10))
            /\ RLe(RMul(baseRadius, RSub(One, body.irregularity)), blk.radius)
            /\ RLe(blk.radius, RMul(baseRadius, RAdd(One, body.irregularity)))

C6_Witness ==
    /\ Handled
    /\ body.kind = "asteroid"
    /\ blk.shape = One
    /\ RGt(body.irregularity, Rat(3, 10))
    /\ blk.frame > 0
    /\ blk.written

IsEvenInteger(a) == a[2] = 1 /\ a[1] % 2 = 0

\* C7: for a block inside a planet or a moon, texU is theta / pi plus exactly
\* 2 * frame / frames, and texU at frame = frames differs from texU at frame 0
\* by an even integer: frames 0 .. frames - 1 sweep one full rotation.
C7_SeamlessRotation ==
    (Handled /\ body.kind \in {"planet", "moon"} /\ blk.inside) =>
        /\ blk.texU = texU(blk.theta, blk.frame, body.frames)
        /\ RSub(blk.texU, blk.theta) = Rat(2 * blk.frame, body.frames)
        /\ IsEvenInteger(RSub(texU(blk.theta, body.frames, body.frames),
                              texU(blk.theta, 0, body.frames)))

C7_Witness ==
    /\ Handled
    /\ body.kind = "moon"
    /\ blk.inside
    /\ blk.theta # Zero
    /\ blk.frame = body.frames - 1
    /\ blk.frame > 0

NoGas ==
    [bandPattern |-> Zero, turbulence |-> Zero, stormNoise |-> Zero, latitude |-> Zero,
     duneNoise |-> FALSE]
\* keys outside the tables: an ordinary one and one every object inherits
UnknownKeys == {"nebula", "constructor"}
\* elevation is a weighted mean of four fbm values, moisture one fbm value
Elevations == {Rat(k, ElevDen) : k \in 0..ElevDen} \cup {D(n) : n \in {27, 35, 37, 38, 80, 88}}
Moistures == UnitLevels \cup {D(60), D(75)}
\* Math.sin, noise.turbulence, noise.fbm and phi
GasInputs ==
    [bandPattern : {RInt(-1), RNeg(Half), Zero, Half, One}, turbulence : UnitLevels,
     stormNoise : {Zero, Half, D(75), One},
     latitude : {Rat(-3, 2), RNeg(Half), Zero, Rat(1, 4), Half}, duneNoise : {FALSE}]

ClassInputs ==
    {[fn |-> "planet", type |-> t, elevation |-> e, moisture |-> m, g |-> NoGas] :
        t \in (planetTypes \cup UnknownKeys) \ {"gas_giant"}, e \in Elevations, m \in Moistures}
    \cup {[fn |-> "planet", type |-> "desert", elevation |-> e, moisture |-> Half,
           g |-> [NoGas EXCEPT !.duneNoise = TRUE]] : e \in Elevations}
    \cup {[fn |-> "planet", type |-> "gas_giant", elevation |-> Half, moisture |-> Half,
           g |-> i] : i \in GasInputs}
    \cup {[fn |-> "star", type |-> c, elevation |-> Zero, moisture |-> Zero, g |-> NoGas] :
            c \in stellarClasses \cup UnknownKeys}

ClassInit ==
    /\ NoiseIdle
    /\ cin = <<>>
    /\ cout = <<>>
    /\ GenIdle
    /\ MainIdle
    /\ kin \in ClassInputs
    /\ kout = NoColor
    /\ kn = 0

\* generatePlanet selects the palette and, for a block of the disc, calls
\* getPlanetSurfaceColor
ClassifyPlanet ==
    /\ kin.fn = "planet"
    /\ kn < MaxEvals
    /\ kout' = getPlanetSurfaceColor(kin.type, kin.elevation, kin.moisture,
                                     planetColors(kin.type), kin.type = "gas_giant", kin.g)
    /\ kn' = kn + 1
    /\ UNCHANGED <<kin, noiseVars, combVars, genVars, mainVars>>

\* generateStar selects the colour set and converts its three colours
SelectStarColors ==
    /\ kin.fn = "star"
    /\ kn < MaxEvals
    /\ LET colors == starColors(kin.type)
       IN  kout' = [throws |-> FALSE, colors |-> colors, band |-> "base", index |-> 0,
                    rgb |-> hexToRgb(Get(colors, "base")),
                    bright |-> hexToRgb(Get(colors, "bright")),
                    glow |-> hexToRgb(Get(colors, "glow"))]
    /\ kn' = kn + 1
    /\ UNCHANGED <<kin, noiseVars, combVars, genVars, mainVars>>

ClassNext ==
    \/ ClassifyPlanet
    \/ SelectStarColors

SpecClassify == ClassInit /\ [][ClassNext]_vars

\* the rectangle of the written block lies inside the sub-image of its frame
InsideFrame ==
    /\ blk.rect.x >= blk.frame * body.size
    /\ blk.rect.x + blk.rect.w <= (blk.frame + 1) * body.size
    /\ blk.rect.y >= 0
    /\ blk.rect.y + blk.rect.h <= body.size

C16_EvenOrMoon ==
    (Handled /\ blk.written /\ (body.kind # "asteroid" \/ body.size % 2 = 0)) => InsideFrame

InChannel(v) == v \in 0..255
\* the colour channels of a written block of a star are valid and a block of
\* the surface has alpha 255
StarChannels ==
    /\ InChannel(blk.rgb.r)
    /\ InChannel(blk.rgb.g)
    /\ InChannel(blk.rgb.b)
    /\ blk.inside => blk.a = RInt(255)

-----------------------------------------------------------------------------
(* Two calls of one generator side by side.  Both get the same arguments,  *)
(* draw the same size and build their Noise3D from the same seed, so every *)
(* noise value read at the same (px, py, frame) is the same in both (the   *)
(* table is a function of the seed and noise a function of the table and   *)
(* the coordinates).  What each call draws from Math.random() besides the  *)
(* size and the seed (isIcy, irregularity) is its own.                     *)

Twins(bd) ==
    {t \in StarBodies \cup PlanetBodies \cup MoonBodies \cup AsteroidBodies :
        /\ t.kind = bd.kind
        /\ t.type = bd.type
        /\ t.size = bd.size
        /\ t.frames = bd.frames}

PairInit ==
    /\ NoiseIdle
    /\ cin = <<>>
    /\ cout = <<>>
    /\ body \in StarBodies \cup PlanetBodies \cup MoonBodies \cup AsteroidBodies
    /\ body2 \in Twins(body)
    /\ canvas = atlas(body.size, body.frames)
    /\ gpc = "pair"
    /\ gframe = 0
    /\ gpy = 0
    /\ gpx = 0
    /\ blk = NoBlock
    /\ blk2 = NoBlock
    /\ ClassIdle
    /\ MainIdle

\* the end of the same iteration of the px loop in both calls
EndPair(b, b2) ==
    LET n == pixelWidth(body.size, body.pixelSize)
    IN  /\ blk' = b
        /\ blk2' = b2
        /\ gpx' = IF gpx + 1 < n THEN gpx + 1 ELSE 0
        /\ gpy' = IF gpx + 1 < n THEN gpy ELSE IF gpy + 1 < n THEN gpy + 1 ELSE 0
        /\ gframe' = IF gpx + 1 < n \/ gpy + 1 < n THEN gframe ELSE gframe + 1
        /\ UNCHANGED <<body, body2, canvas, gpc, noiseVars, combVars, classVars, mainVars>>

InPair(kind) == gpc = "pair" /\ body.kind = kind /\ gframe < body.frames

PairStar ==
    /\ InPair("star")
    /\ \E coronaTurb \in UnitLevels, mixFactor \in MixLevels :
           EndPair(starBlockOf(body, gframe, gpx, gpy, coronaTurb, mixFactor),
                   starBlockOf(body2, gframe, gpx, gpy, coronaTurb, mixFactor))

PairPlanet ==
    /\ InPair("planet")
    /\ EndPair(planetBlockOf(body, gframe, gpx, gpy),
               planetBlockOf(body2, gframe, gpx, gpy))

PairMoon ==
    /\ InPair("moon")
    /\ \E combined \in UnitLevels :
           EndPair(moonBlockOf(body, gframe, gpx, gpy, combined),
                   moonBlockOf(body2, gframe, gpx, gpy, combined))

PairAsteroid ==
    /\ InPair("asteroid")
    /\ \E shapeNoise \in UnitLevels, combined \in UnitLevels :
           EndPair(asteroidBlockOf(body, gframe, gpx, gpy, shapeNoise, combined),
                   asteroidBlockOf(body2, gframe, gpx, gpy, shapeNoise, combined))

PairReturn ==
    /\ gpc = "pair"
    /\ gframe = body.frames
    /\ gpc' = "done"
    /\ UNCHANGED <<body, canvas, gframe, gpy, gpx, blk, body2, blk2, noiseVars, combVars,
                   classVars, mainVars>>

PairNext ==
    \/ PairStar
    \/ PairPlanet
    \/ PairMoon
    \/ PairAsteroid
    \/ PairReturn

SpecPair == PairInit /\ [][PairNext]_vars

\* what a call has put on its canvas for the block: whether it drew, the
\* alpha, the colour and the rectangle
Drawn(b) == <<b.written, b.a, b.rgb, b.rect>>

\* C11: two generations of the same body type and size with the same seed
\* write identical colour and alpha for every (px, py, frame)
C11_SeedDetermines == DOMAIN body2 # {} => Drawn(blk) = Drawn(blk2)

\* The part of C11 that holds: the two generations write the same values
\* when they also drew the same isIcy and the same irregularity
C11_SameDraws ==
    (DOMAIN body2 # {} /\ body2.isIcy = body.isIcy /\ body2.irregularity = body.irregularity)
        => Drawn(blk) = Drawn(blk2)

-----------------------------------------------------------------------------
(* Claims about the colour lookup, checked under SpecClassify *)

\* the colour returned is the element at kout.index of the band kout.band of pal
FromBand(pal) ==
    /\ ~kout.throws
    /\ kout.band \in DOMAIN pal
    /\ kout.index + 1 \in DOMAIN pal[kout.band]
    /\ kout.rgb = hexToRgb(pal[kout.band][kout.index + 1])

TerranLadder ==
    (kin.fn = "planet" /\ kin.type = "terran" /\ kn > 0) =>
        LET e == kin.elevation
            m == kin.moisture
        IN  /\ FromBand(PLANET_COLORS_LITERAL.terran)
            /\ RLt(e, D(35)) =>
                   kout.band = IF RGt(RSub(D(35), e), D(15)) THEN "deep_ocean"
                               ELSE IF RGt(RSub(D(35), e), D(8)) THEN "ocean"
                               ELSE "shallow"
            /\ (RGe(e, D(35)) /\ RLt(e, D(37))) => kout.band = "beach"
            /\ RGt(e, D(88)) => kout.band = "snow"
            /\ (RGt(e, D(80)) /\ RLe(e, D(88))) => kout.band = "mountain"
            /\ (RGe(e, D(37)) /\ RLe(e, D(80))) =>
                   kout.band = IF RGt(m, D(60)) THEN "forest" ELSE "grass"
            /\ e = D(35) => kout.band = "beach"

\* C8: for type terran every elevation in [0, 1] and moisture gets the band of
\* the ladder (water below 0.35 split by depth, beach in [0.35, 0.37), snow above
\* 0.88, mountain in (0.8, 0.88], else forest when moisture > 0.6 and grass when
\* not), elevation exactly 0.35 gets beach, and a repeated evaluation on the
\* same arguments returns the same colour.
C8_TerranLadder ==
    /\ []TerranLadder
    /\ [][(kin.fn = "planet" /\ kin.type = "terran" /\ kn > 0) => kout' = kout]_vars

C8_Witness ==
    /\ kin.fn = "planet"
    /\ kin.type = "terran"
    /\ kin.elevation = D(35)
    /\ kn = MaxEvals
    /\ kout.band = "beach"

\* C9: for every planet type key, configured or not, the palette used is the
\* key's own or, for a key without one, terran's, and the colour returned is an
\* element of a band of that palette; for every stellar class key, known or
\* not, the colour set is the key's own or G's and holds base, bright and glow.
C9_AlwaysClassifies ==
    kn > 0 =>
        IF kin.fn = "planet"
        THEN /\ kout.colors = IF kin.type \in DOMAIN PLANET_COLORS
                              THEN PLANET_COLORS[kin.type]
                              ELSE PLANET_COLORS.terran
             /\ FromBand(kout.colors)
        ELSE /\ kout.colors = IF kin.type \in DOMAIN STAR_COLORS
                              THEN STAR_COLORS[kin.type]
                              ELSE STAR_COLORS.G
             /\ kout.rgb = hexToRgb(kout.colors.base)
             /\ kout.bright = hexToRgb(kout.colors.bright)
             /\ kout.glow = hexToRgb(kout.colors.glow)

\* the part of C9 that holds: every key but the names inherited from
\* Object.prototype
C9_OwnKeysClassify == kin.type \notin ObjectPrototypeKeys => C9_AlwaysClassifies

-----------------------------------------------------------------------------
(* The command line and the four generateAll functions. A step that calls
   the file system or the encoder either returns or throws; an exception
   leaves the async function, whose promise nothing handles, and the process
   ends with status 1. A file name is the tuple of its parts. *)

spritesPerPlanetType == 3
spritesPerMoon == 5
spritesPerAsteroid == 8

stellarClassList ==
    <<"O", "B", "A", "F", "G", "K", "M", "BrownDwarf", "WhiteDwarf", "NeutronStar",
      "Pulsar", "RedGiant", "BlueGiant", "RedSuperGiant", "BlueSuperGiant">>
planetTypeList ==
    <<"terran", "rocky", "desert", "ice", "frozen", "tundra", "lava", "volcanic",
      "ocean", "carbon", "crystal", "metal", "eyeball", "tidally_locked",
      "radioactive", "super_earth", "jungle", "gas_giant">>

\* the order of the if statements of the async function
Categories == <<"stars", "planets", "moons", "asteroids">>
Flag == [stars |-> "--stars", planets |-> "--planets", moons |-> "--moons",
         asteroids |-> "--asteroids"]
Arguments == {"--all", "--stars", "--planets", "--moons", "--asteroids", "--verbose"}

\* args.includes('--all') || args.includes('--stars'), and so on
shouldGenerateOnlyOwn(a, cat) == Flag[cat] \in a
shouldGenerate(a, cat) == "--all" \in a \/ Flag[cat] \in a

RECURSIVE String(_)
\* the decimal digits of i >= 0
String(i) == IF i < 10 THEN <<i>> ELSE Append(String(i \div 10), i % 10)
\* str.padStart(n, '0')
padStart(str, n) ==
    IF Len(str) >= n THEN str
    ELSE [k \in 1..n |-> IF k <= n - Len(str) THEN 0 ELSE str[k - (n - Len(str))]]

\* how many sprites the loop of a category makes
itemCount(cat) ==
    IF cat = "stars" THEN Len(stellarClassList)
    ELSE IF cat = "planets" THEN Len(planetTypeList) * spritesPerPlanetType
    ELSE IF cat = "moons" THEN spritesPerMoon
    ELSE spritesPerAsteroid
\* the path written for sprite number k (from 0) of a category
fileNameNoIndex(cat, k) ==
    IF cat = "stars" THEN <<"stars", "star", stellarClassList[k + 1], ".png">>
    ELSE IF cat = "planets"
    THEN <<"planets", "planet", planetTypeList[(k \div spritesPerPlanetType) + 1],
           padStart(String(0), 3), ".png">>
    ELSE IF cat = "moons" THEN <<"moons", "moon", padStart(String(k), 3), ".png">>
    ELSE <<"asteroids", "asteroid", padStart(String(k), 3), ".png">>
fileName(cat, k) ==
    IF cat = "stars" THEN <<"stars", "star", stellarClassList[k + 1], ".png">>
    ELSE IF cat = "planets"
    THEN <<"planets", "planet", planetTypeList[(k \div spritesPerPlanetType) + 1],
           padStart(String(k % spritesPerPlanetType), 3), ".png">>
    ELSE IF cat = "moons" THEN <<"moons", "moon", padStart(String(k), 3), ".png">>
    ELSE <<"asteroids", "asteroid", padStart(String(k), 3), ".png">>

MainInit ==
    /\ NoiseIdle
    /\ cin = <<>>
    /\ cout = <<>>
    /\ GenIdle
    /\ ClassIdle
    /\ argv \in SUBSET Arguments
    /\ mpc = "cli"
    /\ mcat = 0
    /\ mitem = 0
    /\ mstep = "enter"
    /\ dirs \in {{}, {Categories[k] : k \in 1..4}}
    /\ files = {}
    /\ started = <<>>
    /\ usage = FALSE
    /\ made = 0
    /\ exitCode = -1
    /\ thrown = <<>>

rest == <<noiseVars, combVars, genVars, classVars>>

\* the statements of the body of a generateAll loop, in their order: the call
\* of the generator, its pixel loops, canvas.toBuffer, fs.writeFileSync
stepAfterWriteFirst(step) ==
    IF step = "generate" THEN "write"
    ELSE IF step = "loop" THEN "encode"
    ELSE IF step = "encode" THEN "write"
    ELSE "generate"
stepAfter(step) ==
    IF step = "generate" THEN "loop"
    ELSE IF step = "loop" THEN "encode"
    ELSE IF step = "encode" THEN "write"
    ELSE "generate"

\* where an exception thrown inside generateAll... leaves the process: there
\* is no try or catch, the promise of the async function is rejected
afterThrowSwallowed == "run"
afterThrow == "crashed"

\* the call named op throws
Throw(op) ==
    /\ thrown' = op
    /\ mpc' = afterThrow
    /\ exitCode' = 1

\* the flags are read; without a category the usage is printed and the process exits
ReadFlags ==
    /\ mpc = "cli"
    /\ IF \A k \in 1..4 : ~shouldGenerate(argv, Categories[k])
       THEN /\ usage' = TRUE
            /\ exitCode' = 1
            /\ mpc' = "usage"
            /\ mcat' = mcat
       ELSE /\ mpc' = "run"
            /\ mcat' = 1
            /\ UNCHANGED <<usage, exitCode>>
    /\ UNCHANGED <<argv, mitem, mstep, dirs, files, started, made, thrown, rest>>

\* if (shouldGenerate...) is false
SkipCategory ==
    /\ mpc = "run"
    /\ mcat \in 1..4
    /\ mstep = "enter"
    /\ ~shouldGenerate(argv, Categories[mcat])
    /\ mcat' = mcat + 1
    /\ UNCHANGED <<argv, mpc, mitem, mstep, dirs, files, started, usage, made, exitCode,
                   thrown, rest>>

\* generateAll... is called: the directory is made if it is missing
EnterCategory ==
    /\ mpc = "run"
    /\ mcat \in 1..4
    /\ mstep = "enter"
    /\ shouldGenerate(argv, Categories[mcat])
    /\ started' = Append(started, Categories[mcat])
    /\ \/ /\ dirs' = dirs \cup {Categories[mcat]}
          /\ mstep' = "generate"
          /\ mitem' = 0
          /\ UNCHANGED <<mpc, exitCode, thrown>>
       \/ /\ Categories[mcat] \notin dirs
          /\ Throw(<<"mkdirSync", Categories[mcat]>>)
          /\ UNCHANGED <<dirs, mstep, mitem>>
    /\ UNCHANGED <<argv, mcat, files, usage, made, rest>>

\* generateStar, generatePlanet, generateMoon or generateAsteroid is called
Generate ==
    /\ mpc = "run"
    /\ mcat \in 1..4
    /\ mstep = "generate"
    /\ mitem < itemCount(Categories[mcat])
    /\ mstep' = stepAfter(mstep)
    /\ UNCHANGED <<argv, mpc, mcat, mitem, dirs, files, started, usage, made, exitCode,
                   thrown, rest>>

\* its frame, py and px loops have run to their end and it returns the canvas
GenerateReturns ==
    /\ mpc = "run"
    /\ mstep = "loop"
    /\ made' = made + 1
    /\ mstep' = stepAfter(mstep)
    /\ UNCHANGED <<argv, mpc, mcat, mitem, dirs, files, started, usage, exitCode, thrown,
                   rest>>

\* canvas.toBuffer('image/png')
Encode ==
    /\ mpc = "run"
    /\ mstep = "encode"
    /\ \/ /\ mstep' = stepAfter(mstep)
          /\ UNCHANGED <<mpc, exitCode, thrown>>
       \/ /\ Throw(<<"toBuffer", Categories[mcat], mitem>>)
          /\ UNCHANGED mstep
    /\ UNCHANGED <<argv, mcat, mitem, dirs, files, started, usage, made, rest>>

\* fs.writeFileSync, then the next iteration
Write ==
    /\ mpc = "run"
    /\ mstep = "write"
    /\ \/ /\ files' = files \cup {fileName(Categories[mcat], mitem)}
          /\ mitem' = mitem + 1
          /\ mstep' = stepAfter(mstep)
          /\ UNCHANGED <<mpc, exitCode, thrown>>
       \/ /\ Throw(<<"writeFileSync", Categories[mcat], mitem>>)
          /\ UNCHANGED <<files, mitem, mstep>>
    /\ UNCHANGED <<argv, mcat, dirs, started, usage, made, rest>>

\* the loop of the category ends and generateAll... returns
LeaveCategory ==
    /\ mpc = "run"
    /\ mcat \in 1..4
    /\ mstep = "generate"
    /\ mitem = itemCount(Categories[mcat])
    /\ mcat' = mcat + 1
    /\ mstep' = "enter"
    /\ mitem' = 0
    /\ UNCHANGED <<argv, mpc, dirs, files, started, usage, made, exitCode, thrown, rest>>

\* the async function returns
Finish ==
    /\ mpc = "run"
    /\ mcat = 5
    /\ mpc' = "done"
    /\ exitCode' = 0
    /\ UNCHANGED <<argv, mcat, mitem, mstep, dirs, files, started, usage, made, thrown,
                   rest>>

MainNext ==
    \/ ReadFlags
    \/ SkipCategory
    \/ EnterCategory
    \/ Generate
    \/ GenerateReturns
    \/ Encode
    \/ Write
    \/ LeaveCategory
    \/ Finish

SpecMain == MainInit /\ [][MainNext]_vars

\* C15: for a gas giant the band value (bandPattern + 1)/2 + 0.3 * turbulence
\* selects band1_dark below 0.25, band1 in [0.25, 0.5), band2 in [0.5, 0.75)
\* and band2_light from 0.75 on (also above 1), with the colour index inside
\* the list of that band; when stormNoise > 0.75 and |latitude| < 0.5 the
\* result is the first storm colour whatever the band value is, and in every
\* other case it is the colour of the band.
C15_GasGiantBands ==
    (kin.fn = "planet" /\ kin.type = "gas_giant" /\ kn > 0) =>
        LET v == RAdd(RDiv(RAdd(kin.g.bandPattern, One), RInt(2)),
                      RMul(Rat(3, 10), kin.g.turbulence))
            key == IF RLt(v, Rat(1, 4)) THEN "band1_dark"
                   ELSE IF RGe(v, Rat(1, 4)) /\ RLt(v, Rat(1, 2)) THEN "band1"
                   ELSE IF RGe(v, Rat(1, 2)) /\ RLt(v, Rat(3, 4)) THEN "band2"
                   ELSE "band2_light"
            stormy == /\ RGt(kin.g.stormNoise, Rat(3, 4))
                      /\ RLt(kin.g.latitude, Rat(1, 2))
                      /\ RGt(kin.g.latitude, Rat(-1, 2))
        IN  /\ ~kout.throws
            /\ stormy => (kout.band = "storm" /\ kout.rgb = [r |-> 204, g |-> 51, b |-> 34])
            /\ ~stormy =>
                   /\ kout.band = key
                   /\ kout.index \in 0..(Len(PLANET_COLORS.gas_giant[key]) - 1)
                   /\ kout.rgb = hexToRgb(PLANET_COLORS.gas_giant[key][kout.index + 1])

C15_Witness ==
    /\ kin.fn = "planet"
    /\ kin.type = "gas_giant"
    /\ kn > 0
    /\ kin.g.bandPattern = One
    /\ kin.g.turbulence = One
    /\ kin.g.stormNoise = D(75)
    /\ kin.g.latitude = Zero
    /\ kout.band = "band2_light"
    /\ kout.rgb = [r |-> 226, g |-> 197, b |-> 148]

-----------------------------------------------------------------------------
(* Claims about the command line, checked under SpecMain *)

Selected == {c \in {"stars", "planets", "moons", "asteroids"} :
                 "--all" \in argv \/ ("--" \o c) \in argv}
Started == {started[k] : k \in DOMAIN started}

\* C10: only a category whose flag or --all is among the arguments is
\* generated, a run that ends normally has generated exactly those categories,
\* each with all its files, and a run without any selected category prints the
\* usage and exits with status 1 with no sprite generated and no file written.
C10_Selection ==
    /\ Started \subseteq Selected
    /\ \A f \in files : f[1] \in Started
    /\ mpc = "done" =>
           /\ Started = Selected
           /\ \A c \in Selected :
                  \A k \in 0..(itemCount(c) - 1) : fileName(c, k) \in files
           /\ ~usage
    /\ (Selected = {} /\ mpc # "cli") =>
           /\ mpc = "usage"
           /\ usage
           /\ exitCode = 1
           /\ made = 0
           /\ files = {}
           /\ started = <<>>
    /\ Selected # {} => ~usage /\ mpc # "usage"
    /\ (made > 0 \/ files # {}) => Selected # {}

C10_Witness ==
    /\ mpc = "done"
    /\ argv = {"--moons", "--stars", "--verbose"}
    /\ Started = {"stars", "moons"}
    /\ made = 20

-----------------------------------------------------------------------------
(* Claims about the order of the work and about failures, under SpecMain *)

\* C12: bodies are processed one after another: while a body's pixel loops
\* run, every body computed before has been written (made counts the bodies
\* computed, files the atlases written); an atlas is encoded and written only
\* when its own body is computed and all earlier ones are written; a file is
\* written only by the write step, never while a pixel loop runs, and the
\* next computation starts only after it.
C12_OneAfterAnother ==
    /\ [](mpc \in {"run", "crashed", "done"} =>
            /\ mstep \in {"enter", "generate", "loop"} => made = Cardinality(files)
            /\ mstep \in {"encode", "write"} => made = Cardinality(files) + 1)
    /\ [][/\ files' # files =>
                /\ mstep = "write"
                /\ made = Cardinality(files')
                /\ mstep' = "generate"
          /\ made' # made => (mstep = "loop" /\ files' = files)
          /\ (mstep' = "loop" /\ mstep # "loop") =>
                (mstep = "generate" /\ made = Cardinality(files))]_vars

C12_Witness ==
    /\ mpc = "run"
    /\ mstep = "loop"
    /\ made = 16
    /\ Cardinality(files) = 16
    /\ Categories[mcat] = "planets"

\* C13: a failed directory creation or file write ends the run: the call that
\* threw is not repeated and nothing else is done after it (no step follows),
\* the error leaves the process crashed with status 1 instead of running on,
\* and the failing step itself writes and generates nothing, so the files
\* written before stay as they are.
C13_FailStop ==
    /\ [](Len(thrown) > 0 => (mpc = "crashed" /\ exitCode = 1))
    /\ [][/\ Len(thrown) = 0
          /\ Len(thrown') > 0 =>
                /\ files' = files
                /\ made' = made
                /\ dirs' = dirs
                /\ started' \in {started, Append(started, Categories[mcat])}]_vars

C13_Witness ==
    /\ Len(thrown) > 0
    /\ thrown[1] = "writeFileSync"
    /\ thrown[2] = "planets"
    /\ "stars" \in Started
    /\ Cardinality(files) = 17
    /\ made = 18

\* whether a written path has the form the category gives it
IsDigit(d) == d \in 0..9
WellNamed(f) ==
    /\ f[Len(f)] = ".png"
    /\ \/ Len(f) = 4 /\ f[1] = "stars" /\ f[2] = "star"
          /\ \E k \in DOMAIN stellarClassList : f[3] = stellarClassList[k]
       \/ Len(f) = 5 /\ f[1] = "planets" /\ f[2] = "planet"
          /\ (\E k \in DOMAIN planetTypeList : f[3] = planetTypeList[k])
          /\ Len(f[4]) = 3 /\ \A k \in 1..3 : IsDigit(f[4][k])
       \/ Len(f) = 4 /\ f[1] = "moons" /\ f[2] = "moon"
          /\ Len(f[3]) = 3 /\ \A k \in 1..3 : IsDigit(f[3][k])
       \/ Len(f) = 4 /\ f[1] = "asteroids" /\ f[2] = "asteroid"
          /\ Len(f[3]) = 3 /\ \A k \in 1..3 : IsDigit(f[3][k])

====
